---- MODULE Spec2Model ----
(***************************************************************************)
(* Model of the zero-shot classification backend (src/main.py,             *)
(* src/ml_engine.py, src/database.py, src/delete.py).                      *)
(*                                                                         *)
(* State: the two SQLite tables (global_labels, query_history), the        *)
(* process-wide MLEngine instance, and the request handlers in flight.     *)
(* The synchronous endpoints run on a worker pool, so two handlers can be  *)
(* in flight at once; a handler is cut into one action per database        *)
(* statement (a query, or a commit with the writes it flushes).            *)
(***************************************************************************)
EXTENDS Integers, Sequences, FiniteSets, TLC

VARIABLES
    labels,     \* table global_labels: set of rows [id, label, description, is_active]
    history,    \* table query_history: set of rows
    embedder,   \* ml_instance.embedder is loaded (not None)
    generator,  \* ml_instance.generator is loaded (not None)
    pc,         \* per handler slot: "idle" or the position inside the handler
    req,        \* per handler slot: the request being handled
    local,      \* per handler slot: the handler's local variables
    resp,       \* the last response sent
    pool,       \* the worker slots that take requests
    budget      \* number of requests still accepted in this behaviour

vars == <<labels, history, embedder, generator, pc, req, local, resp, pool, budget>>

---------------------------------------------------------------------------
(* Bounds *)

\* Requests accepted in one behaviour of Spec.
MaxRequests == 3
\* Requests accepted in one behaviour of SpecLabels.
MaxLabelRequests == 4

\* Worker slots handling requests concurrently.
Procs == {"p1", "p2"}
NameOrder(p) == IF p = "p1" THEN 1 ELSE 2

---------------------------------------------------------------------------
(* Values *)

NoValue == "<none>"          \* Python None / SQL NULL / absent JSON key
NoLocal == [none |-> TRUE]
NoResp == [op |-> "none", status |-> 0, detail |-> NoValue, body |-> NoValue]
NoReq == [op |-> "none"]

\* Label names the admin endpoints are called with.
AdminNames == {"A", "B"}
Descriptions == {NoValue, "d"}
\* Names in order of their index; the ad-hoc labels add C..F.
NameSeq == <<"A", "B", "C", "D", "E", "F">>
AllNames == {NameSeq[i] : i \in 1..Len(NameSeq)}
NameIdx(n) == CHOOSE i \in 1..Len(NameSeq) : NameSeq[i] = n

\* Query texts. NumText stands for a JSON value that is not a string
\* (a number in the uploaded file).
Texts == {"t1", "t2"}
NumText == "<json number>"
IsStr(t) == t # NumText /\ t # NoValue

\* custom_labels of a PredictRequest.
CustomLists == { <<>>, <<"B", "C">>, <<"C", "D", "E", "F">> }
\* correct_label of a FeedbackRequest; "Z" is no label of the store.
FeedbackLabels == {"A", "Z"}

Range(s) == {s[i] : i \in 1..Len(s)}
Min(a, b) == IF a < b THEN a ELSE b

---------------------------------------------------------------------------
(* ml_engine.py *)

\* The feature-extraction pipeline: text -> token-level vectors.
Embedder(s) ==
    CASE s = "t1" -> << <<1, 0>>, <<3, 0>> >>
      [] s = "t2" -> << <<1, 1>> >>
      [] s = "A"  -> << <<1, 0>> >>
      [] s = "B"  -> << <<2, 0>> >>
      [] s = "C"  -> << <<0, 1>> >>
      [] s = "D"  -> << <<1, 1>> >>
      [] s = "E"  -> << <<0, -1>> >>
      [] s = "F"  -> << <<0, 2>>, <<0, 4>> >>
      [] OTHER    -> << <<1, -1>> >>

RECURSIVE SumTokens(_)
SumTokens(toks) ==
    IF toks = <<>> THEN <<0, 0>>
    ELSE LET r == SumTokens(Tail(toks))
         IN <<Head(toks)[1] + r[1], Head(toks)[2] + r[2]>>

\* torch.tensor(...).mean(dim=0): mean over the tokens.
MeanPool(toks) ==
    LET s == SumTokens(toks) IN <<s[1] \div Len(toks), s[2] \div Len(toks)>>

Dot(u, v) == u[1] * v[1] + u[2] * v[2]

\* F.cosine_similarity(text_emb, label_emb, dim=0). The score is kept as an
\* integer, 100 * sign(cos) * cos^2, which orders and ties exactly as the
\* cosine does and needs no square root.
CosineSimilarity(u, v) ==
    LET d == Dot(u, v)
        n == Dot(u, u) * Dot(v, v)
    IN IF n = 0 THEN 0
       ELSE IF d >= 0 THEN (100 * d * d) \div n
       ELSE 0 - ((100 * d * d) \div n)

\* similarities.append({"label": label, "score": float(sim)}) for label in labels
RECURSIVE Similarities(_, _)
Similarities(text_emb, lbls) ==
    IF lbls = <<>> THEN <<>>
    ELSE << [label |-> Head(lbls),
             score |-> CosineSimilarity(text_emb, MeanPool(Embedder(Head(lbls))))] >>
         \o Similarities(text_emb, Tail(lbls))

\* Position at which list.sort(key=score, reverse=True) leaves x among the
\* already sorted prefix: behind every element whose score is not smaller
\* (the sort is stable, also under reverse=True).
InsertUnstable(sorted, x) ==
    LET k == Cardinality({i \in 1..Len(sorted) : sorted[i].score > x.score})
    IN SubSeq(sorted, 1, k) \o <<x>> \o SubSeq(sorted, k + 1, Len(sorted))

InsertDesc(sorted, x) ==
    LET k == Cardinality({i \in 1..Len(sorted) : sorted[i].score >= x.score})
    IN SubSeq(sorted, 1, k) \o <<x>> \o SubSeq(sorted, k + 1, Len(sorted))

RECURSIVE SortFrom(_, _)
SortFrom(sorted, rest) ==
    IF rest = <<>> THEN sorted
    ELSE SortFrom(InsertDesc(sorted, Head(rest)), Tail(rest))

\* similarities.sort(key=lambda x: x["score"], reverse=True)
SortDesc(sims) == SortFrom(<<>>, sims)

TopK == 5

\* similarities[:5]
Top5(sims) == SubSeq(sims, 1, Min(TopK, Len(sims)))

NeverRaises(text) == FALSE

\* MLEngine.predict raises: the embedder is not loaded, or the pipeline
\* rejects an input that is not a string.
PredictRaises(text) == ~embedder \/ ~IsStr(text)

\* MLEngine.predict(text, labels) when it does not raise.
MLpredict(text, lbls) ==
    Top5(SortDesc(Similarities(MeanPool(Embedder(text)), lbls)))

---------------------------------------------------------------------------
(* database.py *)

Ids(table) == {r.id : r \in table}

\* INTEGER PRIMARY KEY without AUTOINCREMENT: the next rowid is max + 1.
RECURSIVE MaxOf(_)
MaxOf(S) ==
    IF S = {} THEN 0
    ELSE LET x == CHOOSE y \in S : TRUE
             m == MaxOf(S \ {x})
         IN IF x > m THEN x ELSE m

NextId(table) == MaxOf(Ids(table)) + 1

\* The ids a request may name: those of the rows, and one that resolves
\* to no row.
IdChoices(table) == Ids(table) \cup {NextId(table)}

Row(table, id) == CHOOSE r \in table : r.id = id

\* GlobalLabel(label=..., description=...): is_active defaults to True.
GlobalLabel(id, name, description) ==
    [id |-> id, label |-> name, description |-> description, is_active |-> TRUE]

\* QueryHistory(query_text=..., model_results=...): the correction columns
\* take their defaults.
QueryHistory(id, text, results) ==
    [id |-> id, query_text |-> text, model_results |-> results,
     user_reported_wrong |-> FALSE, correct_label_provided |-> NoValue]

\* The rows of a table as a list in rowid order (a query without ORDER BY).
RECURSIVE InIdOrder(_)
InIdOrder(table) ==
    IF table = {} THEN <<>>
    ELSE LET r == CHOOSE x \in table : \A y \in table : x.id <= y.id
         IN <<r>> \o InIdOrder(table \ {r})

\* db.query(GlobalLabel).filter(GlobalLabel.label == name).first()
LabelNamed(name) == {r \in labels : r.label = name}

\* [l.label for l in db.query(GlobalLabel).filter(is_active == True).all()]
ActiveLabelNames ==
    LET rows == InIdOrder({r \in labels : r.is_active})
    IN [i \in 1..Len(rows) |-> rows[i].label]

---------------------------------------------------------------------------
(* main.py: helpers *)

\* Iteration order of the set built by list(set(candidate_labels)): the
\* order of the strings' hashes, which depend on the interpreter's hash seed.
HashSeeds == {1, 2}
StrHash(n, seed) == (NameIdx(n) * (IF seed % 2 = 1 THEN seed ELSE 11 - seed)) % 11

RECURSIVE SetOrder(_, _)
SetOrder(S, seed) ==
    IF S = {} THEN <<>>
    ELSE LET n == CHOOSE x \in S : \A y \in S : StrHash(x, seed) <= StrHash(y, seed)
         IN <<n>> \o SetOrder(S \ {n}, seed)

Response(op, status, detail, body) ==
    [op |-> op, status |-> status, detail |-> detail, body |-> body]

\* A request is accepted by the first idle worker slot.
Begin(p) ==
    /\ p \in pool
    /\ pc[p] = "idle"
    /\ \A q \in pool : NameOrder(q) < NameOrder(p) => pc[q] # "idle"
    /\ budget > 0
    /\ budget' = budget - 1
    /\ pool' = pool

\* The handler returns (or raises): the response is sent, the slot is idle.
Respond(p, r) ==
    /\ pc' = [pc EXCEPT ![p] = "idle"]
    /\ req' = [req EXCEPT ![p] = NoReq]
    /\ local' = [local EXCEPT ![p] = NoLocal]
    /\ resp' = r

\* The handler of request r goes on at `where` with local variables loc.
Start(p, where, r, loc) ==
    /\ pc' = [pc EXCEPT ![p] = where]
    /\ req' = [req EXCEPT ![p] = r]
    /\ local' = [local EXCEPT ![p] = loc]
    /\ resp' = resp

Goto(p, where, loc) == Start(p, where, req[p], loc)

---------------------------------------------------------------------------
(* main.py: startup *)

\* load_model assigns the embedder pipeline, then the generator pipeline.
startup_event ==
    /\ ~embedder
    /\ embedder' = TRUE
    /\ generator' = TRUE
    /\ UNCHANGED <<labels, history, pc, req, local, resp, pool, budget>>

---------------------------------------------------------------------------
(* main.py: POST /predict *)

IgnoreCustom(active, custom) == active

\* candidate_labels.extend(request.custom_labels)
Extended(active, custom) == active \o custom

KeepDuplicates(merged, seed) == merged

\* candidate_labels = list(set(candidate_labels))
Unique(merged, seed) == SetOrder(Range(merged), seed)

\* Lines 56-72: read the active labels, build the candidates, run the model.
predict(p, text, custom) ==
    LET request == [op |-> "predict", text |-> text, custom_labels |-> custom]
    IN
    /\ Begin(p)
    /\ \E seed \in HashSeeds :
         LET global_labels == ActiveLabelNames
             candidate_labels == Unique(Extended(global_labels, custom), seed)
         IN IF candidate_labels = <<>>
            THEN Respond(p, Response("predict", 400,
                                     "No labels provided (Global or Custom)", NoValue))
            ELSE IF PredictRaises(text)
            THEN Respond(p, Response("predict", 500,
                                     "Embedder (MPNet) not loaded", NoValue))
            ELSE Start(p, "predict_save", request,
                       [global_labels |-> global_labels,
                        candidate_labels |-> candidate_labels,
                        results |-> MLpredict(text, candidate_labels)])
    /\ UNCHANGED <<labels, history, embedder, generator>>

SaveDeferred(table, text, results) == table

SaveOverLast(table, text, results) ==
    {r \in table : r.id # MaxOf({x.id : x \in table})}
        \cup {[id |-> IF table = {} THEN 1 ELSE MaxOf({x.id : x \in table}),
               query_text |-> text, model_results |-> results,
               user_reported_wrong |-> FALSE, correct_label_provided |-> NoValue]}

\* save_prediction_to_db: add and commit the new row; the id it returns is
\* the rowid the insert assigned, NextId of the table before.
SavePrediction(table, text, results) ==
    table \cup {QueryHistory(NextId(table), text, results)}

\* Lines 75-81: save the record and answer.
predict_save(p) ==
    /\ pc[p] = "predict_save"
    /\ history' = SavePrediction(history, req[p].text, local[p].results)
    /\ Respond(p, Response("predict", 200, NoValue,
                           [history_id |-> NextId(history),
                            text |-> req[p].text,
                            top_results |-> local[p].results]))
    /\ UNCHANGED <<labels, embedder, generator, pool, budget>>

---------------------------------------------------------------------------
(* main.py: PATCH /feedback *)

\* Lines 86-88: look the record up.
report_wrong_prediction(p, history_id, correct_label) ==
    LET request == [op |-> "feedback", history_id |-> history_id, correct_label |-> correct_label]
    IN
    /\ Begin(p)
    /\ IF history_id \notin Ids(history)
       THEN Respond(p, Response("feedback", 404, "History record not found", NoValue))
       ELSE Start(p, "feedback_commit", request, [record |-> Row(history, history_id)])
    /\ UNCHANGED <<labels, history, embedder, generator>>

FirstCorrectionWins(record, correct_label) ==
    IF record.user_reported_wrong THEN record
    ELSE [record EXCEPT !.user_reported_wrong = TRUE,
                        !.correct_label_provided = correct_label]

FlagOnly(record, correct_label) == [record EXCEPT !.user_reported_wrong = TRUE]

\* The record after lines 90-91.
Corrected(record, correct_label) ==
    [record EXCEPT !.user_reported_wrong = TRUE,
                   !.correct_label_provided = correct_label]

\* Lines 90-94: set the two attributes and commit. The session writes an
\* UPDATE only if an attribute changed; an UPDATE that matches no row
\* (the row was purged meanwhile) raises StaleDataError.
report_wrong_prediction_commit(p) ==
    /\ pc[p] = "feedback_commit"
    /\ LET old == local[p].record
           new == Corrected(old, req[p].correct_label)
       IN IF new = old
          THEN /\ history' = history
               /\ Respond(p, Response("feedback", 200,
                      "Feedback received. Thank you for improving the model.", NoValue))
          ELSE IF old.id \notin Ids(history)
          THEN /\ history' = history
               /\ Respond(p, Response("feedback", 500, "Internal Server Error", NoValue))
          ELSE /\ history' = (history \ {Row(history, old.id)})
                                \cup {Corrected(Row(history, old.id), req[p].correct_label)}
               /\ Respond(p, Response("feedback", 200,
                      "Feedback received. Thank you for improving the model.", NoValue))
    /\ UNCHANGED <<labels, embedder, generator, pool, budget>>

---------------------------------------------------------------------------
(* main.py: POST /admin/labels *)

\* Lines 138-140: the duplicate check.
add_global_label(p, name, description) ==
    LET request == [op |-> "add", label |-> name, description |-> description]
    IN
    /\ Begin(p)
    /\ IF LabelNamed(name) # {}
       THEN Respond(p, Response("add", 400, "Label already exists", NoValue))
       ELSE Start(p, "add_commit", request, NoLocal)
    /\ UNCHANGED <<labels, history, embedder, generator>>

NoUniqueIndex(name) == FALSE

\* The INSERT is refused by the UNIQUE index on global_labels.label
\* (database.py line 16) when a row holds the name: IntegrityError.
InsertViolatesUnique(name) == LabelNamed(name) # {}

\* Lines 142-145: insert and commit.
add_global_label_commit(p) ==
    /\ pc[p] = "add_commit"
    /\ IF InsertViolatesUnique(req[p].label)
       THEN /\ labels' = labels
            /\ Respond(p, Response("add", 500, "Internal Server Error", NoValue))
       ELSE /\ labels' = labels \cup
                  {GlobalLabel(NextId(labels), req[p].label, req[p].description)}
            /\ Respond(p, Response("add", 200, "Label added.", NoValue))
    /\ UNCHANGED <<history, embedder, generator, pool, budget>>

---------------------------------------------------------------------------
(* main.py: PUT /admin/labels/{label_id} *)

AlwaysChecks(label_item, name) == TRUE

\* label_item.label != label_data.label
NameChanges(label_item, name) == label_item.label # name

\* Lines 107-112: find the label; the duplicate check follows only if the
\* name differs from the loaded one.
update_global_label(p, label_id, name, description) ==
    LET request == [op |-> "update", label_id |-> label_id, label |-> name,
                    description |-> description]
    IN
    /\ Begin(p)
    /\ IF label_id \notin Ids(labels)
       THEN Respond(p, Response("update", 404, "Label not found", NoValue))
       ELSE LET label_item == Row(labels, label_id)
            IN Start(p, IF NameChanges(label_item, name) THEN "update_check"
                                                             ELSE "update_commit",
                     request, [label_item |-> label_item])
    /\ UNCHANGED <<labels, history, embedder, generator>>

\* Lines 113-115: the duplicate check against the new name.
update_global_label_check(p) ==
    /\ pc[p] = "update_check"
    /\ IF LabelNamed(req[p].label) # {}
       THEN Respond(p, Response("update", 400, "Label name already exists", NoValue))
       ELSE Goto(p, "update_commit", local[p])
    /\ UNCHANGED <<labels, history, embedder, generator, pool, budget>>

\* The UPDATE that commit flushes sets the attributes that differ from the
\* loaded ones. A changed label held by another row: IntegrityError.
UpdateViolatesUnique(label_item, name) ==
    /\ label_item.label # name
    /\ \E r \in labels : r.id # label_item.id /\ r.label = name

\* Lines 118-122: assign, commit, refresh. A row deleted meanwhile makes
\* the UPDATE (StaleDataError) or the refresh (InvalidRequestError) raise.
update_global_label_commit(p) ==
    /\ pc[p] = "update_commit"
    /\ LET old == local[p].label_item
           name == req[p].label
           description == req[p].description
       IN IF old.id \notin Ids(labels) \/ UpdateViolatesUnique(old, name)
          THEN /\ labels' = labels
               /\ Respond(p, Response("update", 500, "Internal Server Error", NoValue))
          ELSE LET row == Row(labels, old.id)
                   new == [row EXCEPT
                             !.label = IF old.label # name THEN name ELSE @,
                             !.description =
                                 IF old.description # description THEN description ELSE @]
               IN /\ labels' = (labels \ {row}) \cup {new}
                  /\ Respond(p, Response("update", 200, "Label updated", NoValue))
    /\ UNCHANGED <<history, embedder, generator, pool, budget>>

---------------------------------------------------------------------------
(* main.py: DELETE /admin/labels/{label_id} *)

\* Lines 127-129: find the label.
delete_global_label(p, label_id) ==
    LET request == [op |-> "delete", label_id |-> label_id]
    IN
    /\ Begin(p)
    /\ IF label_id \notin Ids(labels)
       THEN Respond(p, Response("delete", 404, "Label not found", NoValue))
       ELSE Start(p, "delete_commit", request, [label_item |-> Row(labels, label_id)])
    /\ UNCHANGED <<labels, history, embedder, generator>>

Deactivated(table, id) ==
    {IF r.id = id THEN [r EXCEPT !.is_active = FALSE] ELSE r : r \in table}

\* db.delete(label_item); db.commit(): the row is removed.
Deleted(table, id) == {r \in table : r.id # id}

\* Lines 131-133: delete and commit (a DELETE matching no row only warns).
delete_global_label_commit(p) ==
    /\ pc[p] = "delete_commit"
    /\ labels' = Deleted(labels, local[p].label_item.id)
    /\ Respond(p, Response("delete", 200, "Label deleted successfully", NoValue))
    /\ UNCHANGED <<history, embedder, generator, pool, budget>>

---------------------------------------------------------------------------
(* main.py: POST /admin/labels/bulk *)

\* Uploaded files: json is "invalid" (json.loads raises), "object" (valid
\* JSON that is no list) or "list" with its items.
JsonFile(json, items) == [json |-> json, items |-> items]
LabelItem(name, description) ==
    [kind |-> "dict", label |-> name, description |-> description]

LabelFiles ==
    { JsonFile("list", <<LabelItem("A", NoValue), LabelItem("B", "d")>>),
      JsonFile("list", <<LabelItem("A", "d"), LabelItem("A", NoValue)>>),
      JsonFile("list", <<LabelItem(NoValue, "d"), LabelItem("B", NoValue)>>),
      JsonFile("object", <<>>) }

\* Lines 250-261: parse the upload.
bulk_add_labels(p, file) ==
    LET request == [op |-> "bulk_add", file |-> file]
    IN
    /\ Begin(p)
    /\ IF file.json = "invalid"
       THEN Respond(p, Response("bulk_add", 400, "Invalid JSON file.", NoValue))
       ELSE IF file.json # "list"
       THEN Respond(p, Response("bulk_add", 400, "JSON must be a list of objects.", NoValue))
       ELSE Start(p, "bulk_add_loop", request,
                 [pending |-> <<>>, idx |-> 1, added_count |-> 0,
                  skipped_count |-> 0, errors |-> <<>>])
    /\ UNCHANGED <<labels, history, embedder, generator>>

\* Lines 263-281, one iteration: the session does not autoflush
\* (database.py line 9), so the query sees the committed rows only.
bulk_add_labels_item(p) ==
    /\ pc[p] = "bulk_add_loop"
    /\ local[p].idx <= Len(req[p].file.items)
    /\ LET item == req[p].file.items[local[p].idx]
           loc == [local[p] EXCEPT !.idx = @ + 1]
       IN IF item.kind # "dict"
          THEN Respond(p, Response("bulk_add", 500, "Internal Server Error", NoValue))
          ELSE IF item.label = NoValue
          THEN Goto(p, "bulk_add_loop", loc)
          ELSE IF LabelNamed(item.label) # {}
          THEN Goto(p, "bulk_add_loop", [loc EXCEPT !.skipped_count = @ + 1])
          ELSE Goto(p, "bulk_add_loop",
                    [loc EXCEPT !.pending = Append(@, item), !.added_count = @ + 1])
    /\ UNCHANGED <<labels, history, embedder, generator, pool, budget>>

\* The rows one commit inserts for the pending objects, in order.
RECURSIVE InsertAll(_, _)
InsertAll(table, pending) ==
    IF pending = <<>> THEN table
    ELSE InsertAll(table \cup {GlobalLabel(NextId(table), Head(pending).label,
                                           Head(pending).description)},
                   Tail(pending))

\* The flush violates the UNIQUE index: a pending name is held by a row,
\* or two pending objects carry the same name.
FlushViolatesUnique(pending) ==
    \/ \E i \in 1..Len(pending) : LabelNamed(pending[i].label) # {}
    \/ \E i, j \in 1..Len(pending) : i # j /\ pending[i].label = pending[j].label

\* Lines 283-290: commit everything at once and report.
bulk_add_labels_commit(p) ==
    /\ pc[p] = "bulk_add_loop"
    /\ local[p].idx > Len(req[p].file.items)
    /\ IF FlushViolatesUnique(local[p].pending)
       THEN /\ labels' = labels
            /\ Respond(p, Response("bulk_add", 500, "Internal Server Error", NoValue))
       ELSE /\ labels' = InsertAll(labels, local[p].pending)
            /\ Respond(p, Response("bulk_add", 200, "Bulk processing complete",
                                   [added |-> local[p].added_count,
                                    skipped |-> local[p].skipped_count,
                                    errors |-> local[p].errors]))
    /\ UNCHANGED <<history, embedder, generator, pool, budget>>

---------------------------------------------------------------------------
(* main.py: POST /predict/bulk *)

\* Items of an uploaded list: an object with or without a "text" key, a
\* JSON string (here the string "text"), or a JSON number.
TextItem(text) == [kind |-> "dict", text |-> text]
NoTextItem == [kind |-> "dict", text |-> NoValue]
StrItem == [kind |-> "str", text |-> NoValue]
NumItem == [kind |-> "num", text |-> NoValue]

BatchLimit == 100

TextFiles ==
    { JsonFile("invalid", <<>>),
      JsonFile("object", <<>>),
      JsonFile("list", <<>>),
      JsonFile("list", <<TextItem("t1")>>),
      JsonFile("list", <<TextItem("t1"), TextItem(NumText), TextItem("t2")>>),
      JsonFile("list", <<TextItem("t1"), NoTextItem>>),
      JsonFile("list", <<StrItem>>),
      JsonFile("list", <<NumItem>>),
      JsonFile("list", [i \in 1..(BatchLimit + 1) |-> TextItem("t1")]),
      JsonFile("list", [i \in 1..(BatchLimit + 1) |->
                           IF i = 1 THEN NoTextItem ELSE TextItem("t1")]) }

\* "text" in item: key lookup on an object, substring test on a string;
\* raises TypeError on a number.
HasText(item) ==
    \/ item.kind = "dict" /\ item.text # NoValue
    \/ item.kind = "str"
InRaises(item) == item.kind = "num"

\* all("text" in item for item in data) stops at the first item that
\* answers False or raises.
FirstBad(items) ==
    LET bad == {i \in 1..Len(items) : InRaises(items[i]) \/ ~HasText(items[i])}
    IN IF bad = {} THEN 0 ELSE CHOOSE i \in bad : \A j \in bad : i <= j

NoLimit(items) == FALSE

\* len(data) > 100
TooLarge(items) == Len(items) > BatchLimit

\* Lines 231-237: the result appended when an item fails.
FailureMarker(text) ==
    [history_id |-> -1, text |-> text, top_label |-> "ERROR", confidence |-> 0,
     top_results |-> <<>>]

\* Lines 222-228: the result appended when an item succeeds.
ItemResult(h_id, text, predictions) ==
    [history_id |-> h_id, text |-> text,
     top_label |-> predictions[1].label, confidence |-> predictions[1].score,
     top_results |-> SubSeq(predictions, 1, Min(3, Len(predictions)))]

BulkResponse(results_list) ==
    Response("bulk_predict", 200, NoValue,
             [total_processed |-> Len(results_list), results |-> results_list])

\* Lines 183-205: parse and validate the upload, read the active labels.
bulk_predict(p, file) ==
    LET request == [op |-> "bulk_predict", file |-> file]
    IN
    /\ Begin(p)
    /\ LET data == file.items
           bad == FirstBad(data)
           candidate_labels == ActiveLabelNames
       IN IF file.json = "invalid"
          THEN Respond(p, Response("bulk_predict", 400, "Invalid JSON file.", NoValue))
          ELSE IF file.json # "list" \/ (bad # 0 /\ ~InRaises(data[bad]))
          THEN Respond(p, Response("bulk_predict", 400,
                    "JSON must be a list of objects with a 'text' key.", NoValue))
          ELSE IF bad # 0
          THEN Respond(p, Response("bulk_predict", 500, "Internal Server Error", NoValue))
          ELSE IF TooLarge(data)
          THEN Respond(p, Response("bulk_predict", 400,
                    "Batch size limit exceeded (Max 100 items).", NoValue))
          ELSE IF candidate_labels = <<>>
          THEN Respond(p, Response("bulk_predict", 400,
                    "No global labels found in database.", NoValue))
          ELSE IF data = <<>>
          THEN Respond(p, BulkResponse(<<>>))
          ELSE Start(p, "bulk_loop", request,
                    [candidate_labels |-> candidate_labels, results_list |-> <<>>])
    /\ UNCHANGED <<labels, history, embedder, generator>>

\* After the last item the handler returns the list.
AfterItem(p, results_list) ==
    IF Len(results_list) = Len(req[p].file.items)
    THEN Respond(p, BulkResponse(results_list))
    ELSE Goto(p, "bulk_loop", [local[p] EXCEPT !.results_list = results_list])

AbortBatch(p, text_input) ==
    Respond(p, Response("bulk_predict", 500, "Internal Server Error", NoValue))

\* Lines 229-237: the except branch appends the failure marker and the
\* loop goes on.
OnItemError(p, text_input) ==
    AfterItem(p, Append(local[p].results_list, FailureMarker(text_input)))

\* Lines 210-237, one iteration of the loop.
bulk_predict_item(p) ==
    /\ pc[p] = "bulk_loop"
    /\ LET item == req[p].file.items[Len(local[p].results_list) + 1]
           text_input == item.text
       IN IF item.kind # "dict"
          THEN /\ history' = history
               /\ Respond(p, Response("bulk_predict", 500, "Internal Server Error", NoValue))
          ELSE IF PredictRaises(text_input)
          THEN /\ history' = history
               /\ OnItemError(p, text_input)
          ELSE LET predictions == MLpredict(text_input, local[p].candidate_labels)
               IN /\ history' = SavePrediction(history, text_input, predictions)
                  /\ AfterItem(p, Append(local[p].results_list,
                          ItemResult(NextId(history), text_input, predictions)))
    /\ UNCHANGED <<labels, embedder, generator, pool, budget>>

---------------------------------------------------------------------------
(* ml_engine.py: explain_prediction; main.py: POST /explain *)

\* confidence of an ExplainRequest, in hundredths: absent (None), 0.0 or 0.87.
NoScore == [given |-> FALSE, value |-> 0]
Score(value) == [given |-> TRUE, value |-> value]
Scores == {NoScore, Score(0), Score(87)}
\* label of an ExplainRequest.
ExplainLabels == {"A"}

\* A string is held as the sequence of its pieces. A formatted number is
\* the piece [number, precision].
Formatted(score, precision) == [number |-> score, precision |-> precision]

\* f" The similarity score was {score:.3f}." if score else ""
ScoreInfo(score) ==
    IF score = NoScore \/ score.value = 0 THEN <<>>
    ELSE <<" The similarity score was ", Formatted(score, 3), ".">>

\* Lines 81-83: the prompt.
Prompt(text, label, score) ==
    <<"Explain in one concise line why the transaction '", text,
      "' matches the category '", label, "'">>
    \o ScoreInfo(score)
    \o <<", without restating the transaction description.">>

\* output[0]["generated_text"]: the text-generation pipeline returns the
\* prompt followed by the new tokens.
Generated(prompt) == prompt \o <<[continuation_of |-> prompt]>>

\* f"{score:3f}" raises TypeError when score is None.
FormatRaises(score) == score = NoScore

\* Line 94: the template sentence, with the label and the score in it.
TemplatePrefix(label, score) ==
    <<"This transaction aligns with the ", label,
      " category based on its meaning, supported by a similarity score of ",
      Formatted(score, 6), ".">>

\* Lines 92-94: result[le:] behind the template sentence.
Explanation(text, label, score) ==
    LET prompt == Prompt(text, label, score)
        result == Generated(prompt)
        le == Len(prompt)
    IN TemplatePrefix(label, score) \o SubSeq(result, le + 1, Len(result))

\* explain_classification: every exception of explain_prediction becomes a
\* 500 that carries its message.
explain_classification(p, text, label, score) ==
    /\ Begin(p)
    /\ IF ~generator
       THEN Respond(p, Response("explain", 500, "Generator model not loaded", NoValue))
       ELSE IF FormatRaises(score)
       THEN Respond(p, Response("explain", 500,
                "unsupported format string passed to NoneType.__format__", NoValue))
       ELSE Respond(p, Response("explain", 200, NoValue,
                [text |-> text, label |-> label,
                 explanation |-> Explanation(text, label, score)]))
    /\ UNCHANGED <<labels, history, embedder, generator>>

---------------------------------------------------------------------------
(* delete.py: the maintenance script deletes a row of query_history *)

purge_row(id) ==
    /\ id \in Ids(history)
    /\ history' = history \ {Row(history, id)}
    /\ UNCHANGED <<labels, embedder, generator, pc, req, local, resp, pool, budget>>

---------------------------------------------------------------------------

Init ==
    /\ labels = {}
    /\ history = {}
    /\ embedder = FALSE
    /\ generator = FALSE
    /\ pc = [p \in Procs |-> "idle"]
    /\ req = [p \in Procs |-> NoReq]
    /\ local = [p \in Procs |-> NoLocal]
    /\ resp = NoResp
    /\ pool = {"p1"}
    /\ budget = MaxRequests

Next ==
    \/ startup_event
    \/ \E p \in Procs, text \in Texts, custom \in CustomLists : predict(p, text, custom)
    \/ \E p \in Procs : predict_save(p)
    \/ \E p \in Procs, id \in IdChoices(history), l \in FeedbackLabels :
          report_wrong_prediction(p, id, l)
    \/ \E p \in Procs : report_wrong_prediction_commit(p)
    \/ \E id \in Ids(history) : purge_row(id)
    \/ \E p \in Procs, name \in AdminNames, d \in Descriptions : add_global_label(p, name, d)
    \/ \E p \in Procs : add_global_label_commit(p)
    \/ \E p \in Procs, id \in IdChoices(labels), name \in AdminNames, d \in Descriptions :
          update_global_label(p, id, name, d)
    \/ \E p \in Procs : update_global_label_check(p)
    \/ \E p \in Procs : update_global_label_commit(p)
    \/ \E p \in Procs, id \in IdChoices(labels) : delete_global_label(p, id)
    \/ \E p \in Procs : delete_global_label_commit(p)
    \/ \E p \in Procs, file \in LabelFiles : bulk_add_labels(p, file)
    \/ \E p \in Procs : bulk_add_labels_item(p)
    \/ \E p \in Procs : bulk_add_labels_commit(p)
    \/ \E p \in Procs, file \in TextFiles : bulk_predict(p, file)
    \/ \E p \in Procs : bulk_predict_item(p)
    \/ \E p \in Procs, text \in Texts, label \in ExplainLabels, score \in Scores :
          explain_classification(p, text, label, score)

Spec == Init /\ [][Next]_vars

---------------------------------------------------------------------------
(* The Label Store alone: the administration endpoints, to a greater depth *)

InitLabels ==
    /\ labels = {}
    /\ history = {}
    /\ embedder = FALSE
    /\ generator = FALSE
    /\ pc = [p \in Procs |-> "idle"]
    /\ req = [p \in Procs |-> NoReq]
    /\ local = [p \in Procs |-> NoLocal]
    /\ resp = NoResp
    /\ pool = Procs
    /\ budget = MaxLabelRequests

NextLabels ==
    \/ \E p \in Procs, name \in AdminNames, d \in Descriptions : add_global_label(p, name, d)
    \/ \E p \in Procs : add_global_label_commit(p)
    \/ \E p \in Procs, id \in IdChoices(labels), name \in AdminNames, d \in Descriptions :
          update_global_label(p, id, name, d)
    \/ \E p \in Procs : update_global_label_check(p)
    \/ \E p \in Procs : update_global_label_commit(p)
    \/ \E p \in Procs, id \in IdChoices(labels) : delete_global_label(p, id)
    \/ \E p \in Procs : delete_global_label_commit(p)
    \/ \E p \in Procs, file \in LabelFiles : bulk_add_labels(p, file)
    \/ \E p \in Procs : bulk_add_labels_item(p)
    \/ \E p \in Procs : bulk_add_labels_commit(p)

SpecLabels == InitLabels /\ [][NextLabels]_vars

---------------------------------------------------------------------------
(* Properties *)

Pos(seq, x) == CHOOSE i \in 1..Len(seq) : seq[i] = x
ResultLabels(results) == [i \in 1..Len(results) |-> results[i].label]
NoRepeats(seq) == \A i, j \in 1..Len(seq) : seq[i] = seq[j] => i = j

\* This step is slot p taking a request of kind op: the handler goes on, or
\* it has answered at once.
Takes(p, op) ==
    /\ pc[p] = "idle"
    /\ budget' = budget - 1
    /\ \/ pc'[p] # "idle" /\ req'[p].op = op
       \/ pc' = pc /\ resp'.op = op

\* This step is slot p's handler returning or raising.
Answers(p, where) == pc[p] = where /\ pc'[p] = "idle"

\* C1: whenever predict holds the ranker's output for a candidate list, the
\* output is sorted by score descending, its length is exactly
\* min(5, number of candidates), and candidates of equal score stand in
\* the order they had in the candidate list.
C1_RankerSortedTop5Stable ==
    \A p \in Procs : pc[p] = "predict_save" =>
        LET cands == local[p].candidate_labels
            res == local[p].results
        IN /\ Len(res) = Min(5, Len(cands))
           /\ \A i, j \in 1..Len(res) :
                i < j => /\ res[i].score >= res[j].score
                         /\ res[i].score = res[j].score =>
                                Pos(cands, res[i].label) < Pos(cands, res[j].label)

\* The ranker has run on six candidates, two of the five it returned tie,
\* and the tied pair stands against the order of the label names.
C1_Witness ==
    \E p \in Procs :
        /\ pc[p] = "predict_save"
        /\ Len(local[p].candidate_labels) = 6
        /\ Len(local[p].results) = 5
        /\ \E i \in 1..4 :
             /\ local[p].results[i].score = local[p].results[i + 1].score
             /\ NameIdx(local[p].results[i].label) > NameIdx(local[p].results[i + 1].label)

\* C2: a predict that finds no active label and is given no ad-hoc label
\* answers 400 "No labels provided" and leaves the history table as it was;
\* a predict that finds no active label and is given an ad-hoc label runs the
\* ranker (the encoder being loaded) and is then answered 200 with the
\* non-empty ranked list.
C2_EmptyCandidatesRejected ==
    [][\A p \in Procs :
         /\ \A text \in Texts, custom \in CustomLists :
              /\ Takes(p, "predict")
              /\ ActiveLabelNames = <<>>
              /\ predict(p, text, custom)
              => IF custom = <<>>
                 THEN /\ resp' = Response("predict", 400,
                                          "No labels provided (Global or Custom)", NoValue)
                      /\ pc'[p] = "idle"
                      /\ history' = history
                 ELSE embedder =>
                        /\ pc'[p] = "predict_save"
                        /\ Range(ResultLabels(local'[p].results)) \subseteq Range(custom)
                        /\ local'[p].results # <<>>
         /\ Answers(p, "predict_save") =>
              /\ resp'.op = "predict"
              /\ resp'.status = 200
              /\ resp'.body.top_results = local[p].results
              /\ resp'.body.top_results # <<>>
    ]_vars

\* The label table is empty, an earlier predict with ad-hoc labels alone
\* left its record, and the last predict was refused for want of candidates.
C2_Witness ==
    /\ labels = {}
    /\ resp = Response("predict", 400, "No labels provided (Global or Custom)", NoValue)
    /\ \E r \in history : r.model_results # <<>> /\ r.model_results[1].label \notin AdminNames

\* C3: the candidate list predict hands to the ranker holds exactly the
\* names of the active labels it read and of the ad-hoc labels, each once,
\* and no label occurs twice in the ranked result.
C3_CandidatesAreSetUnion ==
    \A p \in Procs : pc[p] = "predict_save" =>
        /\ Range(local[p].candidate_labels)
             = Range(local[p].global_labels) \cup Range(req[p].custom_labels)
        /\ NoRepeats(local[p].candidate_labels)
        /\ NoRepeats(ResultLabels(local[p].results))
        /\ pool = {p} =>
             Range(local[p].global_labels) = {r.label : r \in {x \in labels : x.is_active}}

\* Active labels A and B with ad-hoc labels B and C: three candidates.
C3_Witness ==
    \E p \in Procs :
        /\ pc[p] = "predict_save"
        /\ Range(local[p].global_labels) = {"A", "B"}
        /\ req[p].custom_labels = <<"B", "C">>
        /\ Len(local[p].candidate_labels) = 3

AllObjects(items) == \A i \in 1..Len(items) : items[i].kind = "dict"

\* C4: each turn of the batch loop on a list of objects appends exactly one
\* result, for the item at that position and behind the results so far: the
\* failure marker (history id -1, label "ERROR", confidence 0, empty list)
\* and no history row if the prediction raises, otherwise the prediction of
\* the item's text over the active labels together with the id of the row
\* saved for it. The loop answers only after the last item, with status 200
\* and total_processed = N.
C4_BatchIsolatesItemFaults ==
    [][\A p \in Procs :
         /\ pc[p] = "bulk_loop"
         /\ pc'[p] # pc[p] \/ local'[p] # local[p]
         /\ AllObjects(req[p].file.items)
         => LET items == req[p].file.items
                done == local[p].results_list
                k == Len(done) + 1
                text == items[k].text
                out == IF pc'[p] = "idle" THEN resp'.body.results
                       ELSE local'[p].results_list
            IN /\ (pc'[p] = "idle") = (k = Len(items))
               /\ pc'[p] # "idle" => pc'[p] = "bulk_loop"
               /\ pc'[p] = "idle" =>
                    /\ resp'.op = "bulk_predict"
                    /\ resp'.status = 200
                    /\ resp'.body.total_processed = Len(items)
               /\ Len(out) = k
               /\ SubSeq(out, 1, k - 1) = done
               /\ out[k].text = text
               /\ IF PredictRaises(text)
                  THEN /\ out[k].history_id = -1
                       /\ out[k].top_label = "ERROR"
                       /\ out[k].confidence = 0
                       /\ out[k].top_results = <<>>
                       /\ history' = history
                  ELSE LET ranked == MLpredict(text, local[p].candidate_labels)
                       IN /\ out[k].history_id \notin Ids(history)
                          /\ out[k].history_id \in Ids(history')
                          /\ Row(history', out[k].history_id).query_text = text
                          /\ Row(history', out[k].history_id).model_results = ranked
                          /\ out[k].top_label = ranked[1].label
                          /\ out[k].confidence = ranked[1].score
                          /\ out[k].top_results = SubSeq(ranked, 1, Min(3, Len(ranked)))
    ]_vars

\* A batch of three was answered: the second item carries the failure
\* marker, the first and the third carry saved predictions.
C4_Witness ==
    /\ resp.op = "bulk_predict"
    /\ resp.status = 200
    /\ resp.body.total_processed = 3
    /\ resp.body.results[2].history_id = -1
    /\ resp.body.results[1].history_id \in Ids(history)
    /\ resp.body.results[3].history_id \in Ids(history)
    /\ resp.body.results[1].text = "t1"
    /\ resp.body.results[3].text = "t2"

\* C5: a batch that passed the pre-flight checks (its handler reached the
\* loop over the items) is always answered with a normal BulkResponse,
\* never with an error.
C5_NoBatchLevelError ==
    [][\A p \in Procs : Answers(p, "bulk_loop") => resp'.status = 200]_vars

C7_FeedbackLifecycle ==
    [][\A p \in Procs :
         /\ \A id \in IdChoices(history), l \in FeedbackLabels :
              /\ Takes(p, "feedback")
              /\ report_wrong_prediction(p, id, l)
              => IF id \notin Ids(history)
                 THEN /\ resp' = Response("feedback", 404,
                                          "History record not found", NoValue)
                      /\ pc'[p] = "idle"
                      /\ history' = history
                 ELSE /\ pc'[p] = "feedback_commit"
                      /\ req'[p].history_id = id
                      /\ req'[p].correct_label = l
                      /\ history' = history
         /\ Answers(p, "feedback_commit") /\ req[p].history_id \in Ids(history) =>
              LET id == req[p].history_id
              IN /\ resp'.op = "feedback"
                 /\ resp'.status = 200
                 /\ Ids(history') = Ids(history)
                 /\ Row(history', id).user_reported_wrong
                 /\ Row(history', id).correct_label_provided = req[p].correct_label
                 /\ Row(history', id).query_text = Row(history, id).query_text
                 /\ Row(history', id).model_results = Row(history, id).model_results
                 /\ \A r \in history : r.id # id => r \in history'
    ]_vars

\* A record carries the correction "Z", which is no label of the store, and
\* the feedback was acknowledged.
C7_Witness ==
    /\ resp.op = "feedback"
    /\ resp.status = 200
    /\ \E r \in history : r.user_reported_wrong /\ r.correct_label_provided = "Z"
    /\ \A r \in labels : r.label # "Z"

\* C8: an add whose name is held by a row answers 400 "Label already exists"
\* and leaves the table as it was; a delete removes the row, so that no row
\* holds its name any more; an add whose name no row holds goes on to the
\* insert, which (no row holding the name) answers 200 and adds the label.
C8_DuplicateAddAndReAdd ==
    [][\A p \in Procs :
         /\ \A name \in AdminNames, d \in Descriptions :
              /\ Takes(p, "add")
              /\ add_global_label(p, name, d)
              => IF LabelNamed(name) # {}
                 THEN /\ resp' = Response("add", 400, "Label already exists", NoValue)
                      /\ pc'[p] = "idle"
                      /\ labels' = labels
                 ELSE /\ pc'[p] = "add_commit"
                      /\ req'[p].label = name
                      /\ labels' = labels
         /\ Answers(p, "delete_commit") =>
              /\ resp'.op = "delete"
              /\ resp'.status = 200
              /\ local[p].label_item.id \notin Ids(labels')
              /\ labels' \subseteq labels
              /\ \A r \in labels \ labels' : \A x \in labels' : x.label # r.label
         /\ Answers(p, "add_commit") /\ LabelNamed(req[p].label) = {} =>
              /\ resp'.op = "add"
              /\ resp'.status = 200
              /\ labels \subseteq labels'
              /\ \E r \in labels' \ labels : r.label = req[p].label /\ r.is_active
    ]_vars

\* Rows 2 ("B") and 3 ("A") after an add was answered 200: within the four
\* requests "A" was added as row 1, "B" as row 2, row 1 was deleted and "A"
\* was added again.
C8_Witness ==
    /\ resp.op = "add"
    /\ resp.status = 200
    /\ {<<r.id, r.label>> : r \in labels} = {<<2, "B">>, <<3, "A">>}

\* C9: no two rows of the label table, active or not, share a name (nor an id).
C9_UniqueLabelNames ==
    \A r1, r2 \in labels : (r1.label = r2.label \/ r1.id = r2.id) => r1 = r2

\* Two labels are stored and the last request, racing with another for the
\* same name, was refused by the unique index.
C9_Witness ==
    /\ Cardinality(labels) = 2
    /\ resp.status = 500
    /\ resp.op \in {"add", "update", "bulk_add"}

C12_UpdateFailuresAndOwnName ==
    [][\A p \in Procs :
         /\ \A id \in IdChoices(labels), name \in AdminNames, d \in Descriptions :
              /\ Takes(p, "update")
              /\ update_global_label(p, id, name, d)
              => IF id \notin Ids(labels)
                 THEN /\ resp' = Response("update", 404, "Label not found", NoValue)
                      /\ pc'[p] = "idle"
                      /\ labels' = labels
                 ELSE /\ labels' = labels
                      /\ resp' = resp
                      /\ pc'[p] = IF Row(labels, id).label = name
                                  THEN "update_commit" ELSE "update_check"
         /\ pc[p] = "update_check" /\ pc'[p] # pc[p] =>
              /\ labels' = labels
              /\ IF \E r \in labels : r.label = req[p].label
                 THEN /\ pc'[p] = "idle"
                      /\ resp' = Response("update", 400,
                                          "Label name already exists", NoValue)
                 ELSE pc'[p] = "update_commit"
         /\ pc[p] = "update_commit" /\ pc'[p] # pc[p] =>
              /\ pc'[p] = "idle"
              /\ resp'.op = "update"
              /\ resp'.status = 200
              /\ Ids(labels') = Ids(labels)
              /\ Row(labels', req[p].label_id).label = req[p].label
              /\ Row(labels', req[p].label_id).description = req[p].description
              /\ \A r \in labels : r.id # req[p].label_id => r \in labels'
    ]_vars

\* Labels "A" and "B" are stored and the last request, an update renaming
\* one to the other's name, was refused.
C12_Witness ==
    /\ resp = Response("update", 400, "Label name already exists", NoValue)
    /\ {<<r.id, r.label>> : r \in labels} = {<<1, "A">>, <<2, "B">>}

\* C13: an explain request that finds the generator loaded is answered 200
\* with the template sentence followed by what the generator produced behind
\* the prompt, whether the score is given or absent; it is answered with the
\* generator-unavailable error only when the generator is not loaded.
C13_ExplainPrefixPlusContinuation ==
    [][\A p \in Procs, text \in Texts, label \in ExplainLabels, score \in Scores :
         /\ Takes(p, "explain")
         /\ explain_classification(p, text, label, score)
         => IF generator
            THEN /\ resp'.status = 200
                 /\ resp'.body.text = text
                 /\ resp'.body.label = label
                 /\ LET e == resp'.body.explanation
                        pre == TemplatePrefix(label, score)
                    IN /\ SubSeq(e, 1, Len(pre)) = pre
                       /\ SubSeq(e, Len(pre) + 1, Len(e))
                            = <<[continuation_of |-> Prompt(text, label, score)]>>
            ELSE resp' = Response("explain", 500, "Generator model not loaded", NoValue)
    ]_vars

\* C14: feedback on a record that already carries a correction is taken like
\* any other; when a feedback commit answers 200 and the record is there,
\* the record's flag is set and its corrected label is the label just
\* submitted; a submission of the label the record already carries leaves
\* the table as it was; and no step turns the flag of a record back to false.
C14_ResubmissionOverwrites ==
    [][/\ \A p \in Procs :
            /\ \A id \in Ids(history), l \in FeedbackLabels :
                 /\ Takes(p, "feedback")
                 /\ report_wrong_prediction(p, id, l)
                 => pc'[p] = "feedback_commit" /\ resp' = resp
            /\ Answers(p, "feedback_commit") /\ req[p].history_id \in Ids(history) =>
                 LET id == req[p].history_id
                     l == req[p].correct_label
                 IN /\ resp'.op = "feedback"
                    /\ resp'.status = 200
                    /\ Row(history', id).user_reported_wrong
                    /\ Row(history', id).correct_label_provided = l
                    /\ Row(history, id).user_reported_wrong
                         /\ Row(history, id).correct_label_provided = l
                         => history' = history
       /\ \A r \in history, r2 \in history' :
            r.user_reported_wrong /\ r2.id = r.id => r2.user_reported_wrong
    ]_vars

\* A second feedback, with another label, is about to be committed on a
\* record that carries the correction of the first.
C14_Witness ==
    \E p \in Procs :
        /\ pc[p] = "feedback_commit"
        /\ local[p].record.user_reported_wrong
        /\ local[p].record.correct_label_provided = "A"
        /\ req[p].correct_label = "Z"
        /\ local[p].record \in history

\* C15: the history id a predict answers with is greater than the id the
\* predict answered before it returned, whatever the maintenance script has
\* purged in between; and a row saved by predict or by the batch loop gets
\* an id greater than that of the last predict answered.
C15_HistoryIdsIncrease ==
    [][/\ resp.op = "predict" /\ resp.status = 200
       /\ (resp' # resp \/ history' # history)
       => /\ resp'.op = "predict" /\ resp'.status = 200 /\ resp' # resp =>
               resp'.body.history_id > resp.body.history_id
          /\ \A r \in history' \ history :
               r.user_reported_wrong = FALSE /\ r.correct_label_provided = NoValue
               => r.id > resp.body.history_id
    ]_vars

\* C16: the ranked list predict holds for a request is the one the ranker
\* returns for every order in which the set of candidates can be
\* enumerated: the same labels with the same scores in the same order.
C16_RankingIndependentOfSetOrder ==
    \A p \in Procs : pc[p] = "predict_save" =>
        \A seed \in HashSeeds :
            MLpredict(req[p].text,
                      Unique(Extended(local[p].global_labels, req[p].custom_labels), seed))
              = local[p].results

\* This step is one of slot p's handler.
Moves(p) == pc'[p] # pc[p] \/ local'[p] # local[p]

LabelSteps ==
    {"add_commit", "update_check", "update_commit", "delete_commit", "bulk_add_loop"}

\* C17: a step of predict or of the batch loop keeps every row of the
\* history table and at most adds one; taking a request, and every step of
\* the label handlers and of explain, leaves the table as it was; a step
\* of feedback keeps the set of ids, every row but the addressed one, and of
\* the addressed row the query text and the ranked list.
C17_HistoryAppendOnlyButFeedback ==
    [][\A p \in Procs :
         /\ pc[p] \in {"predict_save", "bulk_loop"} /\ Moves(p) =>
              /\ history \subseteq history'
              /\ Cardinality(history' \ history) <= 1
         /\ pc[p] \in LabelSteps /\ Moves(p) => history' = history
         /\ pc[p] = "idle" /\ budget' # budget => history' = history
         /\ pc[p] = "feedback_commit" /\ Moves(p) =>
              /\ Ids(history') = Ids(history)
              /\ \A r \in history :
                   /\ r.id # req[p].history_id => r \in history'
                   /\ Row(history', r.id).query_text = r.query_text
                   /\ Row(history', r.id).model_results = r.model_results
    ]_vars

\* Two records: the first carries a correction, the second was appended by
\* the predict answered last.
C17_Witness ==
    /\ resp.op = "predict"
    /\ resp.status = 200
    /\ resp.body.history_id = 2
    /\ Ids(history) = {1, 2}
    /\ Row(history, 1).user_reported_wrong
    /\ Row(history, 1).model_results # <<>>
    /\ ~Row(history, 2).user_reported_wrong

\* C18: an add that has passed its duplicate check ends, when a row holds
\* its name by the time of the insert, with 400 "Label already exists",
\* and otherwise with 200 and the label added: of two adds of one name in
\* flight together one succeeds, the other gets the client error, and one
\* row of that name is left.
C18_ConcurrentAddsAtomic ==
    [][\A p \in Procs :
         Answers(p, "add_commit") =>
            /\ resp'.op = "add"
            /\ IF LabelNamed(req[p].label) # {}
               THEN /\ resp'.status = 400
                    /\ resp'.detail = "Label already exists"
                    /\ labels' = labels
               ELSE resp'.status = 200
            /\ Cardinality({r \in labels' : r.label = req[p].label}) = 1
    ]_vars

\* C19: a predict that has candidates and finds the encoder not loaded
\* answers with the server error 500, not with one of the client errors,
\* goes no further (nothing is saved) and leaves the history table as it was.
C19_PredictionFailureSavesNothing ==
    [][\A p \in Procs, text \in Texts, custom \in CustomLists :
         /\ Takes(p, "predict")
         /\ predict(p, text, custom)
         /\ ~embedder
         /\ Range(ActiveLabelNames) \cup Range(custom) # {}
         => /\ pc'[p] = "idle"
            /\ resp'.op = "predict"
            /\ resp'.status = 500
            /\ resp'.detail = "Embedder (MPNet) not loaded"
            /\ history' = history
    ]_vars

\* A predict over a stored label was answered with the server error while
\* the encoder was not loaded, and the history table is empty.
C19_Witness ==
    /\ resp = Response("predict", 500, "Embedder (MPNet) not loaded", NoValue)
    /\ ~embedder
    /\ labels # {}
    /\ history = {}

\* The names of the first n items of an upload.
NamesBefore(items, n) == {items[i].label : i \in 1..n} \ {NoValue}

\* C11: a bulk upload of a list always ends with the normal result (status
\* 200), the labels table then holds every name of the upload, and the
\* counts account for every item: added + skipped + number of errors equals
\* the number of items, with every item without a name recorded in errors.
C11_BulkAddAccountsForEveryItem ==
    [][\A p \in Procs :
         Answers(p, "bulk_add_loop") =>
            LET items == req[p].file.items
                unnamed == {i \in 1..Len(items) : items[i].label = NoValue}
            IN /\ resp'.op = "bulk_add"
               /\ resp'.status = 200
               /\ NamesBefore(items, Len(items)) \subseteq {r.label : r \in labels'}
               /\ Len(resp'.body.errors) = Cardinality(unnamed)
               /\ resp'.body.added + resp'.body.skipped + Len(resp'.body.errors)
                    = Len(items)
    ]_vars

====
